---- MODULE Spec2Model ----
(***************************************************************************)
(* Model of plot.py, the "Polymer Constructor" Streamlit script:           *)
(* create_polymer_chain, write_xyz_string, visualize_polymer and the       *)
(* script body that binds them to the widgets and the Generate button.     *)
(*                                                                         *)
(* Numbers.  The code computes with IEEE doubles.  The model keeps the     *)
(* exact real value of every double for angles that are multiples of 30    *)
(* degrees and bond lengths that are multiples of 0.1: such a value is     *)
(* (a + b*sqrt(3)) / 40 with integers a and b.  A double also carries a    *)
(* rounding error of a few 1e-16; the model records only whether one may   *)
(* be present (field inexact).  It cannot change a printed digit, but it   *)
(* decides the sign printed for a value whose exact value is zero, so the  *)
(* model leaves that sign open ("0.000000" or "-0.000000").                *)
(*                                                                         *)
(* Text.  A Python str is a sequence of one-character strings.             *)
(***************************************************************************)
EXTENDS Integers, Sequences, FiniteSets, TLC

(* ------------------------------ bounds -------------------------------- *)
\* largest value entered in the "Number of monomer units" input
MaxUnits == 5
\* direct calls of create_polymer_chain use n_units from -MaxNeg upwards
MaxNeg == 1
\* clicks of "Generate Polymer" followed in one session
MaxRuns == 2

\* bond angle slider positions explored (the slider offers 0..180)
BondAngles == {0, 30, 90, 120, 180}
\* torsion angle slider positions explored (the slider offers -180..180)
TorsionAngles == {-90, -30, 0, 60, 180}
\* bond length slider positions explored, in tenths (the slider offers 5..50)
BondLengths == {5, 15, 50}

(* ------------------------------- state -------------------------------- *)
VARIABLES
    n_units, bond_angle, torsion_angle, bond_length, monomer_type,
    caller,        \* "ui": the Streamlit script; "direct": the functions called
    button,        \* what st.button returned in the current script run
    pc,            \* "idle", "loop", "write", "visualize", "download", "done"
    i, x, y, z, angle, torsion,
    coordinates, bonds, num_atoms,
    xyz_content, text_area, view, download,
    presses,       \* history: clicks of "Generate Polymer" so far
    calls          \* history: invocations of create_polymer_chain so far

inputs == <<n_units, bond_angle, torsion_angle, bond_length, monomer_type>>
locals == <<i, x, y, z, angle, torsion>>
chain == <<coordinates, bonds, num_atoms>>
outputs == <<xyz_content, text_area, view, download>>
history == <<presses, calls>>
vars == <<inputs, caller, button, pc, locals, chain, outputs, history>>


(* ------------------------------ text ---------------------------------- *)
DigitChars == <<"0", "1", "2", "3", "4", "5", "6", "7", "8", "9">>

Digit(d) == DigitChars[d + 1]

RECURSIVE NatStr(_)
NatStr(n) == IF n < 10 THEN <<Digit(n)>>
             ELSE NatStr(n \div 10) \o <<Digit(n % 10)>>

\* f"{num_atoms}" for an int
IntStr(n) == IF n < 0 THEN <<"-">> \o NatStr(0 - n) ELSE NatStr(n)

\* the six digits after the decimal point
Frac6(m) == << Digit((m \div 100000) % 10), Digit((m \div 10000) % 10),
               Digit((m \div 1000) % 10), Digit((m \div 100) % 10),
               Digit((m \div 10) % 10), Digit(m % 10) >>

(* ------------------------------ doubles ------------------------------- *)
\* the double with exact value (a + b*sqrt(3)) / 40
Float(a, b, e) == [a |-> a, b |-> b, inexact |-> e]

Zero == Float(0, 0, FALSE)

\* the literal 0.0, and the only double whose sign of zero is known
IsExactZero(f) == f.a = 0 /\ f.b = 0 /\ ~f.inexact

\* a slider value given in tenths
FromTenths(t) == Float(4 * t, 0, FALSE)

FMul(f, g) ==
    IF IsExactZero(f) \/ IsExactZero(g) THEN Zero
    ELSE Float((f.a * g.a + 3 * f.b * g.b) \div 40,
               (f.a * g.b + f.b * g.a) \div 40,
               f.inexact \/ g.inexact)

FAdd(f, g) ==
    IF IsExactZero(g) THEN f
    ELSE Float(f.a + g.a, f.b + g.b, f.inexact \/ g.inexact)

\* np.radians: degrees to radians, here in units of pi/6
radians(deg) == [k |-> deg \div 30, inexact |-> deg # 0]

\* cos of k*pi/6 for k = 0..11, as <<a, b>> over 40
CosTable == << <<40, 0>>, <<0, 20>>, <<20, 0>>, <<0, 0>>, <<-20, 0>>,
               <<0, -20>>, <<-40, 0>>, <<0, -20>>, <<-20, 0>>, <<0, 0>>,
               <<20, 0>>, <<0, 20>> >>

cos(r) == LET e == CosTable[(r.k % 12) + 1]
          IN  Float(e[1], e[2], r.inexact)

sin(r) == LET e == CosTable[((r.k + 9) % 12) + 1]
          IN  Float(e[1], e[2], r.inexact)

(***************************************************************************)
(* Rounding to six decimals: the nearest integer to                        *)
(* (a + b*sqrt(3)) * 25000, with 25000*sqrt(3) = 43301.27018 92219 32338.. *)
(* taken in limbs of five digits.  A value with b # 0 is irrational, so    *)
(* there are no ties.                                                      *)
(***************************************************************************)
Round6(f) ==
    IF f.b = 0 THEN [neg |-> f.a < 0,
                     micro |-> (IF f.a < 0 THEN 0 - f.a ELSE f.a) * 25000]
    ELSE LET b  == IF f.b < 0 THEN 0 - f.b ELSE f.b
             lo == b * 92219 + (b * 32338) \div 100000
             hi == b * 27018 + lo \div 100000
             I  == b * 43301 + hi \div 100000
             up == IF (hi % 100000) >= 50000 THEN 1 ELSE 0
             N  == IF f.b > 0 THEN f.a * 25000 + I ELSE f.a * 25000 - I
             r  == IF f.b > 0 THEN N + up ELSE N - up
         IN  [neg |-> IF f.b > 0 THEN N < 0 ELSE N <= 0,
              micro |-> IF r < 0 THEN 0 - r ELSE r]

\* the text of a sign and a magnitude in millionths
Fixed6(neg, micro) ==
    (IF neg THEN <<"-">> ELSE <<>>) \o NatStr(micro \div 1000000)
        \o <<".">> \o Frac6(micro % 1000000)

\* f"{x:.6f}": the texts the build can print for the double f
FormatFixed6(f) ==
    IF f.a = 0 /\ f.b = 0
    THEN IF f.inexact THEN {Fixed6(FALSE, 0), Fixed6(TRUE, 0)}
         ELSE {Fixed6(FALSE, 0)}
    ELSE LET r == Round6(f) IN {Fixed6(r.neg, r.micro)}

(* ------------------------- create_polymer_chain ------------------------ *)
\* variant: the running position starts one unit along x
StartLocalsOffset ==
    [x |-> FromTenths(10), y |-> Zero, z |-> Zero, angle |-> 0, torsion |-> 0]

\* variant: the locals keep what the previous invocation left in them
StartLocalsStale ==
    [x |-> x, y |-> y, z |-> z, angle |-> angle, torsion |-> torsion]

\* x, y, z = 0.0, 0.0, 0.0; angle = 0.0; torsion = 0.0
StartLocals == [x |-> Zero, y |-> Zero, z |-> Zero, angle |-> 0, torsion |-> 0]

\* variant: the loop also runs for i = n_units
InRangeInclusive(k, n) == k <= n

\* for i in range(n_units): the loop runs while i is below n_units
InRange(k, n) == k < n

\* variant: a bond is appended for the first monomer too
AppendBondFromZero(bs, k) == IF k >= 0 THEN Append(bs, <<k - 1, k>>) ELSE bs

\* if i > 0: bonds.append((i - 1, i))
AppendBond(bs, k) == IF k > 0 THEN Append(bs, <<k - 1, k>>) ELSE bs

\* variant: the angle is incremented before the position is advanced
angle_rad_late == radians(angle + bond_angle)

\* angle_rad = np.radians(angle)
angle_rad == radians(angle)

\* torsion_rad = np.radians(torsion)
torsion_rad == radians(torsion)

\* bond_length * np.cos(angle_rad) * np.cos(torsion_rad)
StepX(L, ar, tr) == FMul(FMul(L, cos(ar)), cos(tr))

\* variant: the y step without the torsion factor
StepYFlat(L, ar, tr) == FMul(L, sin(ar))

\* bond_length * np.sin(angle_rad) * np.cos(torsion_rad)
StepY(L, ar, tr) == FMul(FMul(L, sin(ar)), cos(tr))

\* bond_length * np.sin(torsion_rad)
StepZ(L, tr) == FMul(L, sin(tr))

(* --------------------------- write_xyz_string -------------------------- *)
CommentLine == <<"G", "e", "n", "e", "r", "a", "t", "e", "d", " ", "p", "o", "l", "y", "m", "e", "r", " ", "c", "h", "a", "i", "n">>

\* variant: the fields are separated by commas
AtomLineComma(atom) ==
    atom[1] \o <<",">> \o atom[2] \o <<",">> \o atom[3] \o <<",">> \o atom[4]
        \o <<"\n">>

\* f"{atom[0]} {atom[1]} {atom[2]} {atom[3]}\n"
AtomLine(atom) ==
    atom[1] \o <<" ">> \o atom[2] \o <<" ">> \o atom[3] \o <<" ">> \o atom[4]
        \o <<"\n">>

RECURSIVE WriteAtoms(_)
WriteAtoms(coords) ==
    IF coords = <<>> THEN <<>>
    ELSE AtomLine(Head(coords)) \o WriteAtoms(Tail(coords))

\* variant: the comment line is left out
write_xyz_string_no_comment(n, coords) ==
    IntStr(n) \o <<"\n">> \o WriteAtoms(coords)

write_xyz_string(n, coords) ==
    IntStr(n) \o <<"\n">> \o CommentLine \o <<"\n">> \o WriteAtoms(coords)

(* --------------------------- visualize_polymer ------------------------- *)
DigitVal(c) == CHOOSE d \in 0..9 : DigitChars[d + 1] = c

RECURSIVE ParseDigits(_, _)
ParseDigits(s, acc) ==
    IF s = <<>> THEN acc
    ELSE IF Head(s) = "." THEN ParseDigits(Tail(s), acc)
    ELSE ParseDigits(Tail(s), 10 * acc + DigitVal(Head(s)))

\* float(text) of a six-decimal text, in millionths; float("-0.000000") is
\* -0.0, which equals 0.0
ParseFloat(s) ==
    IF s # <<>> /\ Head(s) = "-" THEN 0 - ParseDigits(Tail(s), 0)
    ELSE ParseDigits(s, 0)

Center(atom) ==
    [x |-> ParseFloat(atom[2]), y |-> ParseFloat(atom[3]),
     z |-> ParseFloat(atom[4])]

\* radius 0.3 is kept in tenths
Sphere(atom) ==
    [center |-> Center(atom), radius10 |-> 3,
     color |-> IF atom[1] = <<"N">> THEN "blue" ELSE "gray"]

\* radius 0.1 is kept in tenths; bond holds 0-based indices
Cylinder(coords, bond) ==
    [start |-> Center(coords[bond[1] + 1]), end |-> Center(coords[bond[2] + 1]),
     radius10 |-> 1, color |-> "gray"]

\* variant: the first atom gets no sphere
visualize_polymer_skip(coords, bs) ==
    [spheres   |-> [k \in 1..(Len(coords) - 1) |-> Sphere(coords[k + 1])],
     cylinders |-> [k \in 1..Len(bs) |-> Cylinder(coords, bs[k])]]

visualize_polymer(coords, bs) ==
    [spheres   |-> [k \in 1..Len(coords) |-> Sphere(coords[k])],
     cylinders |-> [k \in 1..Len(bs) |-> Cylinder(coords, bs[k])]]

NoView == [spheres |-> <<>>, cylinders |-> <<>>]

(* ------------------------------ widgets ------------------------------- *)
\* st.number_input(min_value=1, step=1), explored up to MaxUnits
NumberInputValues == 1..MaxUnits

\* st.selectbox("Monomer type", ["C", "O", "N", "H"])
MonomerTypes == { <<"C">>, <<"O">>, <<"N">>, <<"H">> }

\* arguments of direct calls of create_polymer_chain
CallUnits == (0 - MaxNeg)..MaxUnits

CallMonomerTypes == { <<"N">>, <<"C", "l">> }

NoDownload == [data |-> <<>>, file_name |-> "", mime |-> ""]

\* a script run starts with none of the names of the button branch bound
NothingShown ==
    /\ i = 0 /\ x = Zero /\ y = Zero /\ z = Zero /\ angle = 0 /\ torsion = 0
    /\ coordinates = <<>> /\ bonds = <<>> /\ num_atoms = 0
    /\ xyz_content = <<>> /\ text_area = <<>> /\ view = NoView
    /\ download = NoDownload

Init ==
    /\ n_units = 5 /\ bond_angle = 120 /\ torsion_angle = 0
    /\ bond_length = 15 /\ monomer_type = <<"C">>
    /\ caller = "ui" /\ button = FALSE /\ pc = "idle"
    /\ NothingShown
    /\ presses = 0 /\ calls = 0

InitCall ==
    /\ n_units = 5 /\ bond_angle = 120 /\ torsion_angle = 0
    /\ bond_length = 15 /\ monomer_type = <<"C">>
    /\ caller \in {"ui", "direct"} /\ button = FALSE /\ pc = "idle"
    /\ NothingShown
    /\ presses = 0 /\ calls = 0

\* a widget changed: the script reruns from the top with the button not
\* pressed, and the button branch is skipped
Rerun ==
    /\ caller = "ui" /\ pc \in {"idle", "done"}
    /\ button' = FALSE /\ pc' = "idle" /\ caller' = caller
    /\ i' = 0 /\ x' = Zero /\ y' = Zero /\ z' = Zero
    /\ angle' = 0 /\ torsion' = 0
    /\ coordinates' = <<>> /\ bonds' = <<>> /\ num_atoms' = 0
    /\ xyz_content' = <<>> /\ text_area' = <<>> /\ view' = NoView
    /\ download' = NoDownload
    /\ UNCHANGED history

SetUnits(v) ==
    /\ v # n_units /\ Rerun /\ n_units' = v
    /\ UNCHANGED <<bond_angle, torsion_angle, bond_length, monomer_type>>

SetBondAngle(v) ==
    /\ v # bond_angle /\ Rerun /\ bond_angle' = v
    /\ UNCHANGED <<n_units, torsion_angle, bond_length, monomer_type>>

SetTorsionAngle(v) ==
    /\ v # torsion_angle /\ Rerun /\ torsion_angle' = v
    /\ UNCHANGED <<n_units, bond_angle, bond_length, monomer_type>>

SetBondLength(v) ==
    /\ v # bond_length /\ Rerun /\ bond_length' = v
    /\ UNCHANGED <<n_units, bond_angle, torsion_angle, monomer_type>>

SetMonomerType(v) ==
    /\ v # monomer_type /\ Rerun /\ monomer_type' = v
    /\ UNCHANGED <<n_units, bond_angle, torsion_angle, bond_length>>

\* entry of create_polymer_chain: coordinates = [], bonds = [], the locals
EnterChain ==
    /\ coordinates' = <<>> /\ bonds' = <<>> /\ i' = 0
    /\ x' = StartLocals.x /\ y' = StartLocals.y /\ z' = StartLocals.z
    /\ angle' = StartLocals.angle /\ torsion' = StartLocals.torsion
    /\ num_atoms' = 0
    /\ xyz_content' = <<>> /\ text_area' = <<>> /\ view' = NoView
    /\ download' = NoDownload
    /\ calls' = calls + 1
    /\ pc' = "loop"

\* "Generate Polymer" clicked: the script reruns, st.button returns True and
\* create_polymer_chain is called with the widget values
Press ==
    /\ caller = "ui" /\ pc \in {"idle", "done"}
    /\ presses < MaxRuns
    /\ button' = TRUE /\ presses' = presses + 1
    /\ EnterChain
    /\ UNCHANGED <<inputs, caller>>

\* create_polymer_chain called once with arguments of the caller's choice,
\* its result passed on as the button branch does
Call(n, ba, ta, bl, mt) ==
    /\ caller = "direct" /\ pc = "idle"
    /\ n_units' = n /\ bond_angle' = ba /\ torsion_angle' = ta
    /\ bond_length' = bl /\ monomer_type' = mt
    /\ EnterChain
    /\ UNCHANGED <<caller, button, presses>>

\* one iteration of the loop
LoopIter ==
    /\ pc = "loop" /\ InRange(i, n_units)
    /\ \E fx \in FormatFixed6(x), fy \in FormatFixed6(y), fz \in FormatFixed6(z) :
          coordinates' = Append(coordinates, <<monomer_type, fx, fy, fz>>)
    /\ bonds' = AppendBond(bonds, i)
    /\ x' = FAdd(x, StepX(FromTenths(bond_length), angle_rad, torsion_rad))
    /\ y' = FAdd(y, StepY(FromTenths(bond_length), angle_rad, torsion_rad))
    /\ z' = FAdd(z, StepZ(FromTenths(bond_length), torsion_rad))
    /\ angle' = angle + bond_angle
    /\ torsion' = torsion + torsion_angle
    /\ i' = i + 1
    /\ UNCHANGED <<inputs, caller, button, pc, num_atoms, outputs, history>>

\* the loop is over: num_atoms = n_units; return
Return ==
    /\ pc = "loop" /\ ~InRange(i, n_units)
    /\ num_atoms' = n_units
    /\ pc' = "write"
    /\ UNCHANGED <<inputs, caller, button, locals, coordinates, bonds, outputs,
                   history>>

\* xyz_content = write_xyz_string(num_atoms, coordinates); st.text_area
WriteXyz ==
    /\ pc = "write"
    /\ xyz_content' = write_xyz_string(num_atoms, coordinates)
    /\ text_area' = xyz_content'
    /\ pc' = "visualize"
    /\ UNCHANGED <<inputs, caller, button, locals, chain, view, download,
                   history>>

\* view = visualize_polymer(coordinates, bonds)
Visualize ==
    /\ pc = "visualize"
    /\ view' = visualize_polymer(coordinates, bonds)
    /\ pc' = "download"
    /\ UNCHANGED <<inputs, caller, button, locals, chain, xyz_content,
                   text_area, download, history>>

\* st.download_button(data=xyz_content, file_name="polymer.xyz", ...)
Download ==
    /\ pc = "download"
    /\ download' = [data |-> xyz_content, file_name |-> "polymer.xyz",
                    mime |-> "text/plain"]
    /\ pc' = "done"
    /\ UNCHANGED <<inputs, caller, button, locals, chain, xyz_content,
                   text_area, view, history>>

Next ==
    \/ \E v \in NumberInputValues : SetUnits(v)
    \/ \E v \in BondAngles : SetBondAngle(v)
    \/ \E v \in TorsionAngles : SetTorsionAngle(v)
    \/ \E v \in BondLengths : SetBondLength(v)
    \/ \E v \in MonomerTypes : SetMonomerType(v)
    \/ Press
    \/ LoopIter
    \/ Return
    \/ WriteXyz
    \/ Visualize
    \/ Download

\* a direct call, with arguments from the explored sets
DirectCall ==
    /\ caller = "direct" /\ pc = "idle"
    /\ \E n \in CallUnits, ba \in BondAngles, ta \in TorsionAngles,
         bl \in BondLengths, mt \in CallMonomerTypes :
           Call(n, ba, ta, bl, mt)

NextCall ==
    \/ Next
    \/ DirectCall

Spec == Init /\ [][Next]_vars

SpecCall == InitCall /\ [][NextCall]_vars

(* --------------------- the reader of the XYZ format -------------------- *)
(* The reader is described in the specification (read contract); its code *)
(* is not part of plot.py.                                                 *)
Whitespace == {" ", "\t", "\n", "\r"}

\* the lines of a text, each without its terminator; a last line need not
\* be terminated
Lines(s) ==
    LET ends == {k \in 1..Len(s) : s[k] = "\n"}
                  \cup (IF Len(s) > 0 /\ s[Len(s)] # "\n"
                        THEN {Len(s) + 1} ELSE {})
        Nth(j) == CHOOSE p \in ends : Cardinality({q \in ends : q < p}) = j - 1
        Start(j) == IF j = 1 THEN 1 ELSE Nth(j - 1) + 1
    IN  [j \in 1..Cardinality(ends) |-> SubSeq(s, Start(j), Nth(j) - 1)]

\* the fields of a line, split on runs of whitespace
Fields(line) ==
    LET IsWs(k) == k < 1 \/ k > Len(line) \/ line[k] \in Whitespace
        starts == {k \in 1..Len(line) : ~IsWs(k) /\ IsWs(k - 1)}
        NthStart(j) ==
            CHOOSE p \in starts : Cardinality({q \in starts : q < p}) = j - 1
        End(p) ==
            CHOOSE e \in p..Len(line) :
                IsWs(e + 1) /\ \A m \in p..e : ~IsWs(m)
    IN  [j \in 1..Cardinality(starts) |->
            SubSeq(line, NthStart(j), End(NthStart(j)))]

ParseInt(s) ==
    IF s # <<>> /\ Head(s) = "-" THEN 0 - ParseDigits(Tail(s), 0)
    ELSE ParseDigits(s, 0)

HasFourFields(f) == Len(f) = 4

\* line 0 is the count, line 1 is skipped, every later line is kept when it
\* splits into exactly four fields
ParseXyz(text) ==
    LET ls == Lines(text)
    IN  [count |-> ParseInt(ls[1]),
         atoms |-> SelectSeq([k \in 1..(Len(ls) - 2) |-> Fields(ls[k + 2])],
                             HasFourFields)]

(* ------------------------------ claims -------------------------------- *)
Returned == pc \in {"write", "visualize", "download", "done"}

Written == pc \in {"visualize", "download", "done"}

OriginText == Fixed6(FALSE, 0)

\* C1: for n_units >= 1 create_polymer_chain returns exactly n_units atoms,
\* each with the symbol monomer_type, and exactly n_units - 1 bonds, which
\* are (0,1), (1,2), ..., (n_units-2, n_units-1) in that order, so every
\* bond index is an atom index in 0..n_units-1.
C1_AtomsAndBonds ==
    (Returned /\ n_units >= 1) =>
        /\ num_atoms = n_units
        /\ Len(coordinates) = n_units
        /\ \A k \in 1..Len(coordinates) :
              Len(coordinates[k]) = 4 /\ coordinates[k][1] = monomer_type
        /\ Len(bonds) = n_units - 1
        /\ \A k \in 1..Len(bonds) :
              /\ bonds[k] = <<k - 1, k>>
              /\ bonds[k][1] \in 0..(n_units - 1)
              /\ bonds[k][2] \in 0..(n_units - 1)

C1_Witness == Returned /\ n_units >= 3 /\ Len(bonds) >= 2

\* C2: for n_units = 1 create_polymer_chain returns one atom at the origin
\* and no bond; and for every n_units >= 1 atom 0 is at the origin.
C2_FirstAtomAtOrigin ==
    /\ (Returned /\ n_units = 1) =>
          (Len(coordinates) = 1 /\ bonds = <<>>)
    /\ (pc # "idle" /\ Len(coordinates) >= 1) =>
          coordinates[1] = <<monomer_type, OriginText, OriginText, OriginText>>

C2_Witness ==
    Returned /\ n_units = 1 /\ bond_angle = 90 /\ torsion_angle = 60
        /\ Len(coordinates) = 1

\* the four fields of an atom with one space between them
Joined(atom) ==
    atom[1] \o <<" ">> \o atom[2] \o <<" ">> \o atom[3] \o <<" ">> \o atom[4]

\* C3: write_xyz_string, given num_atoms and m atoms, produces exactly m + 2
\* lines: the count num_atoms, the comment "Generated polymer chain", then
\* for each atom, in input order, its four fields separated by single spaces.
C3_DocumentLayout ==
    Written =>
        LET ls == Lines(xyz_content)
        IN  /\ Len(ls) = Len(coordinates) + 2
            /\ xyz_content[Len(xyz_content)] = "\n"
            /\ ls[1] = IntStr(num_atoms)
            /\ ls[2] = CommentLine
            /\ \A j \in 1..Len(coordinates) : ls[2 + j] = Joined(coordinates[j])

C3_Witness == Written /\ Len(coordinates) >= 3 /\ Len(Lines(xyz_content)) >= 5

\* C4: in every XYZ document written from the result of
\* create_polymer_chain, for any integer n_units, the count on line 1 equals
\* the number of atom lines after the comment line.
C4_CountMatchesLines ==
    Written =>
        LET ls == Lines(xyz_content)
        IN  ParseInt(ls[1]) = Len(ls) - 2

\* C5: round trip: for n_units >= 1 and a one-character symbol, reading back
\* the text written from the chain yields the same atoms, in the same order,
\* with the same symbol and the same coordinate texts; no line is dropped.
C5_RoundTrip ==
    (Written /\ n_units >= 1 /\ Len(monomer_type) = 1) =>
        LET doc == ParseXyz(xyz_content)
        IN  doc.atoms = coordinates /\ doc.count = Len(coordinates)

C5_Witness ==
    /\ Written /\ n_units >= 3 /\ Len(monomer_type) = 1
    /\ \E k \in 1..Len(coordinates) : Head(coordinates[k][2]) = "-"
    /\ Len(ParseXyz(xyz_content).atoms) = n_units

\* the difference g - f of two doubles, without the rounding mark
Delta(f, g) == <<g.a - f.a, g.b - f.b>>

Exact(f) == <<f.a, f.b>>

\* C6: the step from atom i to atom i+1 is bond_length * (cos(i*bond_angle)
\* * cos(i*torsion_angle), sin(i*bond_angle) * cos(i*torsion_angle),
\* sin(i*torsion_angle)): the atom is emitted before the advance and the
\* accumulators are incremented after it, so atom 1 is at (bond_length, 0, 0).
C6_StepFormula ==
    [][ (pc = "loop" /\ i' = i + 1) =>
          LET L  == FromTenths(bond_length)
              ar == radians(i * bond_angle)
              tr == radians(i * torsion_angle)
          IN  /\ Delta(x, x') = Exact(StepX(L, ar, tr))
              /\ Delta(y, y') = Exact(StepY(L, ar, tr))
              /\ Delta(z, z') = Exact(StepZ(L, tr))
              /\ coordinates' # <<>>
              /\ (i = 1 =>
                    coordinates'[2] =
                        <<monomer_type, Fixed6(FALSE, bond_length * 100000),
                          OriginText, OriginText>>) ]_vars

C6_Witness ==
    /\ pc = "loop" /\ i >= 3 /\ bond_angle = 30 /\ torsion_angle = 60
    /\ Len(coordinates) = i

\* C7: create_polymer_chain does not validate n_units: with n_units <= 0 it
\* returns no atoms, no bonds and num_atoms = n_units; the number input's
\* minimum of 1 keeps such values away from calls made through the button.
C7_NoValidation ==
    /\ (Returned /\ n_units <= 0) =>
          (coordinates = <<>> /\ bonds = <<>> /\ num_atoms = n_units)
    /\ (caller = "ui" \/ button) => n_units >= 1

C7_Witness ==
    caller = "direct" /\ pc = "done" /\ n_units < 0 /\ num_atoms = n_units

\* the square of a + b*sqrt(3), as <<rational part, sqrt(3) part>>
Square(d) == <<d[1] * d[1] + 3 * d[2] * d[2], 2 * d[1] * d[2]>>

\* C8: every bond joins two atoms at distance bond_length: each step vector
\* has norm bond_length, whatever bond_angle and torsion_angle are.
C8_BondLength ==
    [][ (pc = "loop" /\ i' = i + 1 /\ i + 1 < n_units) =>
          LET sx == Square(Delta(x, x'))
              sy == Square(Delta(y, y'))
              sz == Square(Delta(z, z'))
          IN  /\ sx[1] + sy[1] + sz[1] = (4 * bond_length) * (4 * bond_length)
              /\ sx[2] + sy[2] + sz[2] = 0 ]_vars

C8_Witness ==
    /\ pc = "loop" /\ i >= 2 /\ i < n_units
    /\ bond_angle = 30 /\ torsion_angle = 60
    /\ Len(bonds) = i - 1

\* what is shown after a generation describes the chain as it is
ShownMatchesChain ==
    /\ xyz_content = write_xyz_string(num_atoms, coordinates)
    /\ text_area = xyz_content
    /\ download.data = xyz_content
    /\ Len(view.spheres) = Len(coordinates)
    /\ \A k \in 1..Len(coordinates) :
          view.spheres[k].center = Center(coordinates[k])
    /\ Len(view.cylinders) = Len(bonds)
    /\ \A k \in 1..Len(bonds) :
          /\ view.cylinders[k].start = Center(coordinates[bonds[k][1] + 1])
          /\ view.cylinders[k].end = Center(coordinates[bonds[k][2] + 1])

\* C9: write_xyz_string and visualize_polymer leave coordinates and bonds
\* unchanged, so the text shown, the structure rendered and the download of
\* one generation describe the same atom sequence.
C9_ChainNotMutated ==
    [][ (pc \in {"write", "visualize", "download"}) =>
          /\ coordinates' = coordinates
          /\ bonds' = bonds
          /\ (pc' = "done" => ShownMatchesChain') ]_vars

C9_Witness ==
    /\ pc = "done" /\ Len(coordinates) >= 3 /\ Len(view.cylinders) >= 2
    /\ download.data = xyz_content /\ xyz_content # <<>>

\* the position of atom k computed afresh from the parameters
RECURSIVE RefX(_)
RefX(k) ==
    IF k = 0 THEN Zero
    ELSE FAdd(RefX(k - 1),
              StepX(FromTenths(bond_length), radians((k - 1) * bond_angle),
                    radians((k - 1) * torsion_angle)))

RECURSIVE RefY(_)
RefY(k) ==
    IF k = 0 THEN Zero
    ELSE FAdd(RefY(k - 1),
              StepY(FromTenths(bond_length), radians((k - 1) * bond_angle),
                    radians((k - 1) * torsion_angle)))

RECURSIVE RefZ(_)
RefZ(k) ==
    IF k = 0 THEN Zero
    ELSE FAdd(RefZ(k - 1),
              StepZ(FromTenths(bond_length), radians((k - 1) * torsion_angle)))

FreshResult ==
    /\ num_atoms = n_units
    /\ Len(coordinates) = n_units
    /\ \A k \in 1..Len(coordinates) :
          /\ coordinates[k][1] = monomer_type
          /\ coordinates[k][2] \in FormatFixed6(RefX(k - 1))
          /\ coordinates[k][3] \in FormatFixed6(RefY(k - 1))
          /\ coordinates[k][4] \in FormatFixed6(RefZ(k - 1))
    /\ bonds = [k \in 1..(n_units - 1) |-> <<k - 1, k>>]

\* C10: generations share no state: whatever was generated before, an
\* invocation returns what a first invocation with the same parameters
\* returns; one generation is made per press of the button, none without.
C10_NoSharedState ==
    /\ Returned => FreshResult
    /\ calls = presses
    /\ pc # "idle" => button

C10_Witness ==
    /\ pc = "done" /\ calls = 2 /\ presses = 2
    /\ n_units >= 3 /\ bond_angle # 0 /\ torsion_angle # 0

====
